---- MODULE Spec2Model ----
(***************************************************************************)
(* Model of scripts/check_one_type_per_file.py: the "one type per file"    *)
(* checker.  Bytes and characters are natural numbers (byte values and     *)
(* Unicode code points); byte strings and texts are sequences of them.     *)
(*                                                                         *)
(* Two specifications:                                                     *)
(*   SpecFile  check_file applied to one file: the raw bytes are drawn in  *)
(*             InitFile, ReadText applies read_text_with_fallback,         *)
(*             CountLines applies the splitlines / DECLARATION_RE loop.    *)
(*   Spec      main walking a directory tree, one action per os.walk       *)
(*             iteration, per file of the inner loop, and for the report.  *)
(***************************************************************************)
EXTENDS Integers, Sequences, FiniteSets, TLC

VARIABLES
    raw,        \* SpecFile: the bytes read from the file (line 16)
    fpc,        \* SpecFile: "start" | "decoded" | "raised" | "counted"
    text,       \* SpecFile: the text returned by read_text_with_fallback
    via,        \* SpecFile: which return statement of read_text_with_fallback ran
    count,      \* SpecFile: check_file's result (-1 before it is known)
    root,       \* Spec: name of the root directory passed to main
    tree,       \* Spec: slot -> file content; the files present in the tree
    pc,         \* Spec: "walk" | "files" | "report" | "done"
    stack,      \* Spec: directories os.walk has still to yield, next first
    dirpath,    \* Spec: directory of the current os.walk iteration
    filenames,  \* Spec: file names of dirpath the inner loop has still to see
    errors,     \* Spec: main's list of (fpath, count)
    visited,    \* Spec: the fpaths check_file has been called on, in order
    stdout,     \* Spec: the lines printed
    exitCode,   \* Spec: the process exit status (-1 while running)
    crashed     \* Spec: TRUE when an exception left main unhandled

fileVars == <<raw, fpc, text, via, count>>
mainVars == <<root, tree, pc, stack, dirpath, filenames, errors, visited, stdout, exitCode, crashed>>
vars == <<raw, fpc, text, via, count, root, tree, pc, stack, dirpath, filenames, errors, visited, stdout, exitCode, crashed>>

(***************************************************************************)
(* Bounds of the model.                                                    *)
(***************************************************************************)
\* longest byte string enumerated exhaustively over ByteAlphabet (after the
\* byte-order mark, when there is one)
MaxRawLen == 3
\* longest run of NUL bytes in the generated NUL-heavy inputs
MaxNuls == 11
\* longest run of padding bytes in the generated NUL-heavy inputs
MaxPad == 92
\* longest run of blanks between the tokens of a generated line
MaxWs == 1
\* most lines in a generated multi-line text
MaxLines == 3
\* most files present in a generated tree
MaxFiles == 2

(***************************************************************************)
(* Sequence helpers.                                                       *)
(***************************************************************************)
Max(a, b) == IF a > b THEN a ELSE b

Rep(b, n) == [i \in 1..n |-> b]

SeqsUpTo(S, n) == UNION {[1..k -> S] : k \in 0..n}

\* bytes.count(b) for a single byte
CountByte(s, b) == Cardinality({i \in 1..Len(s) : s[i] = b})

\* b in bytes, for a single byte
HasByte(s, b) == \E i \in 1..Len(s) : s[i] = b

\* bytes.startswith / str.startswith at offset i (1-based)
StartsWithAt(s, p, i) ==
    /\ i + Len(p) - 1 <= Len(s)
    /\ \A k \in 1..Len(p) : s[i + k - 1] = p[k]

StartsWith(s, p) == StartsWithAt(s, p, 1)

EndsWith(s, p) == Len(p) <= Len(s) /\ StartsWithAt(s, p, Len(s) - Len(p) + 1)

DropFirst(s, n) == SubSeq(s, n + 1, Len(s))

(***************************************************************************)
(* Codecs (bytes.decode).  A decode result is [ok, text]; ok = FALSE is    *)
(* UnicodeDecodeError.                                                     *)
(***************************************************************************)
DecodeError == [ok |-> FALSE, text |-> <<>>]

IsCont(b) == b >= 128 /\ b <= 191

\* Length of the well-formed UTF-8 sequence starting at raw[i], 0 if none.
Utf8SeqLen(s, i) ==
    LET b == s[i]
        has(n) == i + n - 1 <= Len(s)
    IN  IF b < 128 THEN 1
        ELSE IF b >= 194 /\ b <= 223
             THEN IF has(2) /\ IsCont(s[i+1]) THEN 2 ELSE 0
        ELSE IF b >= 224 /\ b <= 239
             THEN IF /\ has(3)
                     /\ IsCont(s[i+1])
                     /\ (b = 224 => s[i+1] >= 160)
                     /\ (b = 237 => s[i+1] <= 159)
                     /\ IsCont(s[i+2])
                  THEN 3 ELSE 0
        ELSE IF b >= 240 /\ b <= 244
             THEN IF /\ has(4)
                     /\ IsCont(s[i+1])
                     /\ (b = 240 => s[i+1] >= 144)
                     /\ (b = 244 => s[i+1] <= 143)
                     /\ IsCont(s[i+2])
                     /\ IsCont(s[i+3])
                  THEN 4 ELSE 0
        ELSE 0

Utf8CodePoint(s, i, n) ==
    CASE n = 1 -> s[i]
      [] n = 2 -> (s[i] - 192) * 64 + (s[i+1] - 128)
      [] n = 3 -> (s[i] - 224) * 4096 + (s[i+1] - 128) * 64 + (s[i+2] - 128)
      [] n = 4 -> (s[i] - 240) * 262144 + (s[i+1] - 128) * 4096
                    + (s[i+2] - 128) * 64 + (s[i+3] - 128)

RECURSIVE Utf8From(_, _, _, _)
Utf8From(s, i, acc, mode) ==
    IF i > Len(s) THEN [ok |-> TRUE, text |-> acc]
    ELSE LET n == Utf8SeqLen(s, i)
         IN  IF n = 0
             THEN IF mode = "ignore" THEN Utf8From(s, i + 1, acc, mode)
                  ELSE DecodeError
             ELSE Utf8From(s, i + n, Append(acc, Utf8CodePoint(s, i, n)), mode)

\* raw.decode('utf-8', errors=mode), mode "strict" or "ignore"
Utf8Decode(s, mode) == Utf8From(s, 1, <<>>, mode)

BOM_UTF8 == <<239, 187, 191>>
BOM_UTF16LE == <<255, 254>>
BOM_UTF16BE == <<254, 255>>

\* raw.decode('utf-8-sig', errors='strict'): one leading EF BB BF is dropped
Utf8SigDecode(s) ==
    IF StartsWith(s, BOM_UTF8) THEN Utf8Decode(DropFirst(s, 3), "strict")
    ELSE Utf8Decode(s, "strict")

IsHighSurrogate(u) == u >= 55296 /\ u <= 56319
IsLowSurrogate(u) == u >= 56320 /\ u <= 57343

RECURSIVE Utf16From(_, _, _, _)
Utf16From(s, i, acc, le) ==
    LET unit(k) == IF le THEN s[k] + 256 * s[k+1] ELSE 256 * s[k] + s[k+1]
    IN  IF i > Len(s) THEN [ok |-> TRUE, text |-> acc]
        ELSE IF i + 1 > Len(s) THEN DecodeError            \* truncated data
        ELSE IF IsLowSurrogate(unit(i)) THEN DecodeError   \* illegal encoding
        ELSE IF IsHighSurrogate(unit(i))
             THEN IF i + 3 > Len(s) THEN DecodeError       \* unexpected end
                  ELSE IF ~IsLowSurrogate(unit(i + 2)) THEN DecodeError
                  ELSE Utf16From(s, i + 4,
                         Append(acc, 65536 + (unit(i) - 55296) * 1024
                                           + (unit(i + 2) - 56320)), le)
        ELSE Utf16From(s, i + 2, Append(acc, unit(i)), le)

\* raw.decode('utf-16-le' / 'utf-16-be', errors='strict'): these codecs
\* decode every code unit, a leading FF FE / FE FF included (as U+FEFF)
Utf16Decode(s, le) == Utf16From(s, 1, <<>>, le)

Cp1252Undefined == {129, 141, 143, 144, 157}

Cp1252High ==
    [b \in (128..159) \ Cp1252Undefined |->
        CASE b = 128 -> 8364 [] b = 130 -> 8218 [] b = 131 -> 402
          [] b = 132 -> 8222 [] b = 133 -> 8230 [] b = 134 -> 8224
          [] b = 135 -> 8225 [] b = 136 -> 710  [] b = 137 -> 8240
          [] b = 138 -> 352  [] b = 139 -> 8249 [] b = 140 -> 338
          [] b = 142 -> 381  [] b = 145 -> 8216 [] b = 146 -> 8217
          [] b = 147 -> 8220 [] b = 148 -> 8221 [] b = 149 -> 8226
          [] b = 150 -> 8211 [] b = 151 -> 8212 [] b = 152 -> 732
          [] b = 153 -> 8482 [] b = 154 -> 353  [] b = 155 -> 8250
          [] b = 156 -> 339  [] b = 158 -> 382  [] b = 159 -> 376]

\* raw.decode('cp1252', errors='strict')
Cp1252Decode(s) ==
    IF \E i \in 1..Len(s) : s[i] \in Cp1252Undefined THEN DecodeError
    ELSE [ok |-> TRUE,
          text |-> [i \in 1..Len(s) |->
                      IF s[i] \in 128..159 THEN Cp1252High[s[i]] ELSE s[i]]]

\* raw.decode('latin-1', errors='strict'): every byte is its code point
Latin1Decode(s) == [ok |-> TRUE, text |-> s]

(***************************************************************************)
(* read_text_with_fallback (lines 13-39).                                  *)
(***************************************************************************)
\* mutant: the threshold without the division by ten
BinaryThresholdNoDiv(s) == Max(8, Len(s))

\* max(8, len(raw) // 10), line 19
BinaryThreshold(s) == Max(8, Len(s) \div 10)

\* the condition of line 19
IsBinary(s) ==
    /\ Len(s) > 0
    /\ CountByte(s, 0) > BinaryThreshold(s)
    /\ ~HasByte(s, 10)

Returned(r, v) == [ok |-> r.ok, text |-> r.text, via |-> v]

\* mutant: the encodings tried in the order cp1252, utf-8, latin-1
NoBomDecodeCp1252First(s) ==
    LET utf8 == Utf8Decode(s, "strict")
        cp1252 == Cp1252Decode(s)
        latin1 == Latin1Decode(s)
    IN  IF cp1252.ok THEN Returned(cp1252, "cp1252")
        ELSE IF utf8.ok THEN Returned(utf8, "utf-8")
        ELSE IF latin1.ok THEN Returned(latin1, "latin-1")
        ELSE Returned(Utf8Decode(s, "ignore"), "lossy")

\* the for loop of lines 32-36 and the last resort of line 39
NoBomDecode(s) ==
    LET utf8 == Utf8Decode(s, "strict")
        cp1252 == Cp1252Decode(s)
        latin1 == Latin1Decode(s)
    IN  IF utf8.ok THEN Returned(utf8, "utf-8")
        ELSE IF cp1252.ok THEN Returned(cp1252, "cp1252")
        ELSE IF latin1.ok THEN Returned(latin1, "latin-1")
        ELSE Returned(Utf8Decode(s, "ignore"), "lossy")

\* The value [ok, text, via] of read_text_with_fallback on a file whose
\* content is s; ok = FALSE when UnicodeDecodeError leaves the function.
read_text_with_fallback(s) ==
    IF IsBinary(s) THEN [ok |-> TRUE, text |-> <<>>, via |-> "binary"]
    ELSE IF StartsWith(s, BOM_UTF8) THEN Returned(Utf8SigDecode(s), "utf-8-sig")
    ELSE IF StartsWith(s, BOM_UTF16LE) THEN Returned(Utf16Decode(s, TRUE), "utf-16-le")
    ELSE IF StartsWith(s, BOM_UTF16BE) THEN Returned(Utf16Decode(s, FALSE), "utf-16-be")
    ELSE NoBomDecode(s)

(***************************************************************************)
(* str.splitlines and DECLARATION_RE (lines 7-9, 46-47).                   *)
(***************************************************************************)
\* the characters str.splitlines breaks a line at (besides the pair CR LF)
LineBoundaries == {10, 11, 12, 13, 28, 29, 30, 133, 8232, 8233}

RECURSIVE SplitFrom(_, _, _, _)
SplitFrom(t, start, i, acc) ==
    IF i > Len(t)
    THEN IF start <= Len(t) THEN Append(acc, SubSeq(t, start, Len(t))) ELSE acc
    ELSE IF t[i] \in LineBoundaries
         THEN LET next == IF t[i] = 13 /\ i < Len(t) /\ t[i+1] = 10
                          THEN i + 2 ELSE i + 1
              IN  SplitFrom(t, next, next, Append(acc, SubSeq(t, start, i - 1)))
         ELSE SplitFrom(t, start, i + 1, acc)

RECURSIVE SplitLF(_, _, _, _)
SplitLF(t, start, i, acc) ==
    IF i > Len(t)
    THEN IF start <= Len(t) THEN Append(acc, SubSeq(t, start, Len(t))) ELSE acc
    ELSE IF t[i] = 10
         THEN SplitLF(t, i + 1, i + 1, Append(acc, SubSeq(t, start, i - 1)))
         ELSE SplitLF(t, start, i + 1, acc)

\* mutant: lines end at line feeds only
splitlinesLF(t) == SplitLF(t, 1, 1, <<>>)

\* text.splitlines()
splitlines(t) == SplitFrom(t, 1, 1, <<>>)

\* \s of a str pattern
IsSpace(c) ==
    c \in {9, 10, 11, 12, 13, 28, 29, 30, 31, 32, 133, 160, 5760,
           8232, 8233, 8239, 8287, 12288} \cup (8192..8202)

\* \w of a str pattern, for the code points up to U+00FF and the letters
\* cp1252 maps a byte to
IsWord(c) ==
    \/ c \in 48..57 \/ c \in 65..90 \/ c \in 97..122 \/ c = 95
    \/ c \in {170, 178, 179, 181, 185, 186, 188, 189, 190}
    \/ (c \in 192..255 /\ c \notin {215, 247})
    \/ c \in {402, 710, 352, 338, 381, 353, 339, 382, 376}

KW_public == <<112, 117, 98, 108, 105, 99>>
KW_internal == <<105, 110, 116, 101, 114, 110, 97, 108>>
KW_protected == <<112, 114, 111, 116, 101, 99, 116, 101, 100>>
KW_private == <<112, 114, 105, 118, 97, 116, 101>>
KW_partial == <<112, 97, 114, 116, 105, 97, 108>>
KW_class == <<99, 108, 97, 115, 115>>
KW_struct == <<115, 116, 114, 117, 99, 116>>
KW_enum == <<101, 110, 117, 109>>

AccessModifiers == {KW_public, KW_internal, KW_protected, KW_private}
TypeKinds == {KW_class, KW_struct, KW_enum}

\* The regular expression is run as a position automaton: each operator
\* maps the set P of positions the match may have reached to the set it may
\* reach after one more element of the pattern.

\* \s*
ReSpaces0(l, P) ==
    {q \in 1..(Len(l) + 1) :
        \E p \in P : p <= q /\ \A k \in p..(q - 1) : IsSpace(l[k])}

\* \s+
ReSpaces1(l, P) ==
    {q \in 1..(Len(l) + 1) :
        \E p \in P : p < q /\ \A k \in p..(q - 1) : IsSpace(l[k])}

\* (k1|k2|...)
ReWord(l, P, K) ==
    {q \in 1..(Len(l) + 1) :
        \E p \in P, k \in K : StartsWithAt(l, k, p) /\ q = p + Len(k)}

\* ^\s*(public|internal|protected|private)?\s*(partial\s+)?(class|struct|enum)\s+\w+
DECLARATION_RE(l) ==
    LET p0 == ReSpaces0(l, {1})
        p1 == p0 \cup ReWord(l, p0, AccessModifiers)
        p2 == ReSpaces0(l, p1)
        p3 == p2 \cup ReSpaces1(l, ReWord(l, p2, {KW_partial}))
        p4 == ReWord(l, p3, TypeKinds)
        p5 == ReSpaces1(l, p4)
    IN  \E p \in p5 : p <= Len(l) /\ IsWord(l[p])

\* lines 43-49 of check_file: the count for a decoded text
CountDeclarations(t) ==
    IF t = <<>> THEN 0
    ELSE LET lines == splitlines(t)
         IN  Cardinality({i \in 1..Len(lines) : DECLARATION_RE(lines[i])})

\* check_file on a readable file whose content is s: [ok, count]
check_file(s) ==
    LET r == read_text_with_fallback(s)
    IN  IF r.ok THEN [ok |-> TRUE, count |-> CountDeclarations(r.text)]
        ELSE [ok |-> FALSE, count |-> 0]

(***************************************************************************)
(* Inputs of SpecFile.                                                     *)
(***************************************************************************)
\* NUL, 'A', a byte only latin-1 decodes (81), and the bytes of the three
\* marks (EF BB BF is also the UTF-8 encoding of U+FEFF inside a text)
ByteAlphabet == {0, 65, 129, 187, 191, 239, 254, 255}

ExhaustiveInputs == SeqsUpTo(ByteAlphabet, MaxRawLen)

BomInputs ==
    {b \o s : b \in {BOM_UTF8, BOM_UTF16LE, BOM_UTF16BE}, s \in ExhaustiveInputs}

ClassA == KW_class \o <<32, 65>>

\* a run of NULs, padded, with or without a declaration before it and a
\* line feed after it
NulInputs ==
    {p \o Rep(0, k) \o Rep(65, m) \o t :
        p \in {<<>>, ClassA}, k \in 0..MaxNuls, m \in 0..MaxPad, t \in {<<>>, <<10>>}}

Blanks == {Rep(32, k) : k \in 0..MaxWs} \cup {<<9>>}

\* one line: blanks, modifier, blanks, partial, blanks, kind, blanks,
\* identifier, rest; every part may be missing or malformed
LineInputs ==
    {w0 \o m \o w1 \o pt \o w2 \o k \o w3 \o id \o rest :
        w0 \in Blanks, w1 \in Blanks, w2 \in Blanks, w3 \in Blanks,
        m \in {<<>>, KW_public, KW_internal, <<112, 117, 98>>},
        pt \in {<<>>, KW_partial},
        k \in {<<>>, KW_struct, <<107, 108, 97, 115, 115>>},
        id \in {<<>>, <<65>>, <<123>>},
        rest \in {<<>>, <<123>>}}

\* "class A", "x", "", "x<FF>class A"
SampleLines == {ClassA, <<120>>, <<>>, <<120, 12>> \o ClassA}

Terminators == {<<10>>, <<13, 10>>, <<13>>}

RECURSIVE Concat(_)
Concat(ss) == IF ss = <<>> THEN <<>> ELSE Head(ss) \o Concat(Tail(ss))

TextInputs ==
    {Concat(ls) : ls \in SeqsUpTo({l \o t : l \in SampleLines, t \in Terminators}, MaxLines)}

RawInputs == ExhaustiveInputs \cup BomInputs \cup NulInputs \cup LineInputs \cup TextInputs

(***************************************************************************)
(* SpecFile: check_file on one file.                                       *)
(***************************************************************************)
MainIdle ==
    /\ root = "." /\ tree = <<>> /\ pc = "idle" /\ stack = <<>>
    /\ dirpath = <<>> /\ filenames = <<>> /\ errors = <<>> /\ visited = <<>>
    /\ stdout = <<>> /\ exitCode = -1 /\ crashed = FALSE

InitFile ==
    /\ raw \in RawInputs
    /\ fpc = "start" /\ text = <<>> /\ via = "none" /\ count = -1
    /\ MainIdle

\* line 42, read_text_with_fallback returns
ReadText ==
    /\ fpc = "start"
    /\ LET r == read_text_with_fallback(raw)
       IN  /\ r.ok
           /\ text' = r.text
           /\ via' = r.via
    /\ fpc' = "decoded"
    /\ UNCHANGED <<raw, count>>
    /\ UNCHANGED mainVars

\* line 42, read_text_with_fallback raises UnicodeDecodeError
ReadTextRaises ==
    /\ fpc = "start"
    /\ LET r == read_text_with_fallback(raw)
       IN  /\ ~r.ok
           /\ via' = r.via
    /\ fpc' = "raised"
    /\ UNCHANGED <<raw, text, count>>
    /\ UNCHANGED mainVars

\* lines 43-49
CountLines ==
    /\ fpc = "decoded"
    /\ count' = CountDeclarations(text)
    /\ fpc' = "counted"
    /\ UNCHANGED <<raw, text, via>>
    /\ UNCHANGED mainVars

NextFile == ReadText \/ ReadTextRaises \/ CountLines

SpecFile == InitFile /\ [][NextFile]_vars

(***************************************************************************)
(* The directory tree main walks.                                          *)
(***************************************************************************)
SKIP_DIRS == {".git", ".github", "bin", "obj", ".vs", ".idea"}

DOT_CS == <<46, 99, 115>>

\* the directories below the root, as paths relative to it
DirPaths ==
    {<<>>, <<"bin">>, <<"src">>, <<"bin", "src">>, <<"src", "lib">>, <<"src", "obj">>}

\* the order a directory lists its entries in
DirOrder == <<"bin", "lib", "obj", "src">>

\* "a.cs", "b.cs", "a.txt"
A_CS == <<97, 46, 99, 115>>
B_CS == <<98, 46, 99, 115>>
A_TXT == <<97, 46, 116, 120, 116>>

\* the order a directory lists its files in
FileOrder == <<A_CS, B_CS, A_TXT>>

Range(f) == {f[i] : i \in DOMAIN f}

\* the files a directory of the tree may hold
MayHold(d) ==
    IF d = <<>> THEN {A_CS, B_CS, A_TXT}
    ELSE IF d = <<"src">> THEN {A_CS, A_TXT}
    ELSE {A_CS}

Slots == UNION {{<<d, n>> : n \in MayHold(d)} : d \in DirPaths}

TwoTypes == ClassA \o <<13>> \o KW_enum \o <<32, 66, 32, 123, 10>>
OneType == <<32>> \o KW_public \o <<32>> \o ClassA \o <<13, 10, 120, 10>>
BadBom == BOM_UTF8 \o <<255>>

\* a file: its bytes, or readable = FALSE when open() raises OSError
Contents ==
    {[readable |-> TRUE, raw |-> b] : b \in {OneType, TwoTypes, BadBom}}
        \cup {[readable |-> FALSE, raw |-> <<>>]}

Trees ==
    UNION {[S -> Contents] : S \in {T \in SUBSET Slots : Cardinality(T) <= MaxFiles}}

Roots == {".", "obj"}

\* the sub-sequence of s whose elements are in the set S
RECURSIVE Select(_, _)
Select(s, S) ==
    IF s = <<>> THEN <<>>
    ELSE IF Head(s) \in S THEN <<Head(s)>> \o Select(Tail(s), S)
    ELSE Select(Tail(s), S)

\* dirnames and filenames of the triple os.walk yields for directory d
Dirnames(d) == Select(DirOrder, {n \in Range(DirOrder) : Append(d, n) \in DirPaths})
Filenames(tr, d) == Select(FileOrder, {n \in Range(FileOrder) : <<d, n>> \in DOMAIN tr})

\* mutant: nothing is pruned
FilterDirnamesNone(dn) == dn

\* line 55: [d for d in dirnames if d not in SKIP_DIRS]
FilterDirnames(dn) == Select(dn, Range(dn) \ SKIP_DIRS)

\* line 57
IsCsFile(fname) == EndsWith(fname, DOT_CS)

\* mutant: one declaration is already a violation
IsViolationAtOne(n) == n >= 1

\* line 61
IsViolation(n) == n > 1

\* line 59: os.path.join(dirpath, fname), dirpath starting at the root
Fpath(r, d, fname) == <<r, d, fname>>

\* line 60: check_file(fpath) on the file f of the tree
CheckFileOf(f) == IF f.readable THEN check_file(f.raw) ELSE [ok |-> FALSE, count |-> 0]

(***************************************************************************)
(* Spec: main (lines 51-71) and the interpreter ending the process.        *)
(***************************************************************************)
FileIdle == raw = <<>> /\ fpc = "idle" /\ text = <<>> /\ via = "none" /\ count = -1

Init ==
    /\ root \in Roots
    /\ tree \in Trees
    /\ pc = "walk"
    /\ stack = << <<>> >>
    /\ dirpath = <<>> /\ filenames = <<>>
    /\ errors = <<>> /\ visited = <<>> /\ stdout = <<>>
    /\ exitCode = -1 /\ crashed = FALSE
    /\ FileIdle

\* lines 53-55: os.walk yields the next directory, main prunes dirnames in
\* place, os.walk will descend into what is left before anything else
WalkDir ==
    /\ pc = "walk" /\ stack # <<>>
    /\ LET d == Head(stack)
           dn == FilterDirnames(Dirnames(d))
       IN  /\ dirpath' = d
           /\ filenames' = Filenames(tree, d)
           /\ stack' = [i \in 1..Len(dn) |-> Append(d, dn[i])] \o Tail(stack)
    /\ pc' = "files"
    /\ UNCHANGED <<root, tree, errors, visited, stdout, exitCode, crashed>>
    /\ UNCHANGED fileVars

\* lines 56-58: a file name not ending in ".cs"
SkipFile ==
    /\ pc = "files" /\ filenames # <<>>
    /\ ~IsCsFile(Head(filenames))
    /\ filenames' = Tail(filenames)
    /\ UNCHANGED <<root, tree, pc, stack, dirpath, errors, visited, stdout, exitCode, crashed>>
    /\ UNCHANGED fileVars

\* lines 59-62: check_file returns
CheckFile ==
    /\ pc = "files" /\ filenames # <<>>
    /\ IsCsFile(Head(filenames))
    /\ LET f == tree[<<dirpath, Head(filenames)>>]
           fp == Fpath(root, dirpath, Head(filenames))
           r == CheckFileOf(f)
       IN  /\ r.ok
           /\ visited' = Append(visited, fp)
           /\ errors' = IF IsViolation(r.count) THEN Append(errors, <<fp, r.count>>)
                        ELSE errors
    /\ filenames' = Tail(filenames)
    /\ UNCHANGED <<root, tree, pc, stack, dirpath, stdout, exitCode, crashed>>
    /\ UNCHANGED fileVars

\* line 60 raises (UnicodeDecodeError from lines 25-29, OSError from line
\* 15); nothing in lines 41-74 catches it, so it leaves main and the
\* interpreter ends the process: traceback on stderr, exit status 1
CheckFileRaises ==
    /\ pc = "files" /\ filenames # <<>>
    /\ IsCsFile(Head(filenames))
    /\ ~CheckFileOf(tree[<<dirpath, Head(filenames)>>]).ok
    /\ visited' = Append(visited, Fpath(root, dirpath, Head(filenames)))
    /\ crashed' = TRUE
    /\ exitCode' = 1
    /\ pc' = "done"
    /\ UNCHANGED <<root, tree, stack, dirpath, filenames, errors, stdout>>
    /\ UNCHANGED fileVars

\* line 56: the inner loop is exhausted, back to os.walk
FilesDone ==
    /\ pc = "files" /\ filenames = <<>>
    /\ pc' = "walk"
    /\ UNCHANGED <<root, tree, stack, dirpath, filenames, errors, visited, stdout, exitCode, crashed>>
    /\ UNCHANGED fileVars

\* lines 64-68
ReportViolations ==
    /\ pc = "walk" /\ stack = <<>>
    /\ errors # <<>>
    /\ stdout' = <<[kind |-> "header"]>> \o
                 [i \in 1..Len(errors) |->
                    [kind |-> "violation", path |-> errors[i][1], count |-> errors[i][2]]]
    /\ exitCode' = 1
    /\ pc' = "done"
    /\ UNCHANGED <<root, tree, stack, dirpath, filenames, errors, visited, crashed>>
    /\ UNCHANGED fileVars

\* lines 69-71
ReportSuccess ==
    /\ pc = "walk" /\ stack = <<>>
    /\ errors = <<>>
    /\ stdout' = <<[kind |-> "success"]>>
    /\ exitCode' = 0
    /\ pc' = "done"
    /\ UNCHANGED <<root, tree, stack, dirpath, filenames, errors, visited, crashed>>
    /\ UNCHANGED fileVars

Next ==
    \/ WalkDir \/ SkipFile \/ CheckFile \/ CheckFileRaises \/ FilesDone
    \/ ReportViolations \/ ReportSuccess

Spec == Init /\ [][Next]_vars

(***************************************************************************)
(* Properties of check_file, checked under SpecFile.                       *)
(***************************************************************************)
NulCount == CountByte(raw, 0)

\* C6 (as stated): a non-empty input without a line feed whose number of
\* NULs is at least max(8, len/10) is read as the empty text and counted 0,
\* the case where the number equals the threshold included.
C6_BinaryAtLeastThreshold ==
    (/\ fpc # "start"
     /\ Len(raw) > 0 /\ ~HasByte(raw, 10)
     /\ NulCount >= 8 /\ 10 * NulCount >= Len(raw))
    => /\ fpc # "raised"
       /\ text = <<>>
       /\ fpc = "counted" => count = 0

\* C6 (amended): a non-empty input without a line feed whose number of NULs
\* is strictly greater than max(8, floor(len/10)) is read as the empty text
\* and counted 0.
C6_BinaryAboveThreshold ==
    (/\ fpc # "start"
     /\ Len(raw) > 0 /\ ~HasByte(raw, 10)
     /\ NulCount > 8 /\ NulCount > Len(raw) \div 10)
    => /\ fpc # "raised"
       /\ text = <<>>
       /\ fpc = "counted" => count = 0

\* C6 witness: an input long enough for len // 10 to be the threshold was
\* classified binary and counted.
C6_Witness ==
    /\ fpc = "counted" /\ count = 0 /\ via = "binary"
    /\ Len(raw) \div 10 > 8 /\ NulCount = Len(raw) \div 10 + 1

AfterMark(mark, r) ==
    IF mark = BOM_UTF8 THEN Utf8Decode(DropFirst(r, 3), "strict")
    ELSE Utf16Decode(DropFirst(r, 2), mark = BOM_UTF16LE)

\* C7 (as stated): when the input starts with one of the three marks, is not
\* classified binary and the bytes after the mark are valid in the mark's
\* encoding, the text returned is the decoding of the bytes after the mark.
C7_MarkConsumed ==
    \A mark \in {BOM_UTF8, BOM_UTF16LE, BOM_UTF16BE} :
        (/\ fpc # "start"
         /\ StartsWith(raw, mark) /\ ~IsBinary(raw)
         /\ AfterMark(mark, raw).ok)
        => /\ fpc # "raised"
           /\ text = AfterMark(mark, raw).text

\* C8 (as stated): a line is counted iff, after leading whitespace, it starts
\* with [modifier] [partial] kind identifier, every keyword followed by
\* whitespace.
RECURSIVE SkipWs(_, _)
SkipWs(l, p) == IF p <= Len(l) /\ IsSpace(l[p]) THEN SkipWs(l, p + 1) ELSE p

\* the position after keyword-and-whitespace at p, or 0
AfterToken(l, p, K) ==
    IF \E k \in K : StartsWithAt(l, k, p) /\ p + Len(k) <= Len(l) /\ IsSpace(l[p + Len(k)])
    THEN LET k == CHOOSE kk \in K :
                    StartsWithAt(l, kk, p) /\ p + Len(kk) <= Len(l) /\ IsSpace(l[p + Len(kk)])
         IN  SkipWs(l, p + Len(k))
    ELSE 0

TokenMatch(l) ==
    LET p0 == SkipWs(l, 1)
        p1 == IF AfterToken(l, p0, AccessModifiers) # 0
              THEN AfterToken(l, p0, AccessModifiers) ELSE p0
        p2 == IF AfterToken(l, p1, {KW_partial}) # 0
              THEN AfterToken(l, p1, {KW_partial}) ELSE p1
        p3 == AfterToken(l, p2, TypeKinds)
    IN  p3 # 0 /\ p3 <= Len(l) /\ IsWord(l[p3])

IsOneLine(t) == \A i \in 1..Len(t) : t[i] \notin LineBoundaries

C8_CountedIffTokens ==
    (fpc = "counted" /\ IsOneLine(text))
    => (count = 1 <=> TokenMatch(text))

\* The lines of a text whose only line terminators are LF, CR LF and CR,
\* found from the positions where a terminator ends.
TermEnd(t, i) ==
    i \in 1..Len(t) /\ (t[i] = 10 \/ (t[i] = 13 /\ ~(i < Len(t) /\ t[i + 1] = 10)))

LineStarts(t) == {1} \cup {i + 1 : i \in {j \in 1..Len(t) : TermEnd(t, j)}}

LineAt(t, b) ==
    LET stops == {i \in b..Len(t) : t[i] \in {10, 13}}
        e == IF stops = {} THEN Len(t) + 1
             ELSE CHOOSE i \in stops : \A j \in stops : i <= j
    IN  SubSeq(t, b, e - 1)

MatchingLines(t) == {b \in LineStarts(t) : b <= Len(t) /\ DECLARATION_RE(LineAt(t, b))}

OtherBoundaries == LineBoundaries \ {10, 13}

\* C9 (as stated): for every text, the count is the number of its lines,
\* each ended by LF, CR LF or CR, that match the declaration pattern.
C9_CountOfLines ==
    fpc = "counted" => count = Cardinality(MatchingLines(text))

\* C9 (amended): the same, for every text none of whose characters is one of
\* the other line boundaries of str.splitlines (VT, FF, FS, GS, RS, NEL, LS,
\* PS).
C9_CountOfLinesNoOtherBoundary ==
    (fpc = "counted" /\ \A i \in 1..Len(text) : text[i] \notin OtherBoundaries)
    => count = Cardinality(MatchingLines(text))

\* C9 witness: a text of three lines with three different terminators, two
\* of them declarations, CR LF among them, was counted 2.
C9_Witness ==
    /\ fpc = "counted" /\ count = 2
    /\ Cardinality(LineStarts(text)) = 4
    /\ \E i \in 1..(Len(text) - 1) : text[i] = 13 /\ text[i + 1] = 10
    /\ \E i \in 1..(Len(text) - 1) : text[i] = 13 /\ text[i + 1] # 10
    /\ \E i \in 2..Len(text) : text[i] = 10 /\ text[i - 1] # 13
    /\ \A i \in 1..Len(text) : text[i] \notin OtherBoundaries

HasMark(r) ==
    StartsWith(r, BOM_UTF8) \/ StartsWith(r, BOM_UTF16LE) \/ StartsWith(r, BOM_UTF16BE)

FirstStrict(r) ==
    IF Utf8Decode(r, "strict").ok THEN Utf8Decode(r, "strict").text
    ELSE IF Cp1252Decode(r).ok THEN Cp1252Decode(r).text
    ELSE r

\* C10: an input that is not classified binary and starts with no mark never
\* fails, returns the first strict decoding among UTF-8, Windows-1252,
\* Latin-1 that succeeds and never the lossy one; a failure comes from a mark.
C10_NoMarkNeverFails ==
    /\ (fpc # "start" /\ ~IsBinary(raw) /\ ~HasMark(raw))
       => /\ fpc # "raised"
          /\ via \in {"utf-8", "cp1252", "latin-1"}
          /\ text = FirstStrict(raw)
    /\ fpc = "raised" => (HasMark(raw) /\ via \in {"utf-8-sig", "utf-16-le", "utf-16-be"})

\* C10 witness: UTF-8 and Windows-1252 both refused the input and Latin-1
\* decoded it.
C10_Witness ==
    /\ fpc = "decoded" /\ via = "latin-1"
    /\ ~Utf8Decode(raw, "strict").ok /\ ~Cp1252Decode(raw).ok
    /\ Len(text) = Len(raw)

(***************************************************************************)
(* Properties of main, checked under Spec.                                 *)
(***************************************************************************)
\* a directory path with a component in the excluded set
HasSkipName(d) == \E i \in 1..Len(d) : d[i] \in SKIP_DIRS

\* the files of the tree main is to examine: ".cs" files not below an
\* excluded directory of the tree
CandidateSlots ==
    {sl \in DOMAIN tree : EndsWith(sl[2], DOT_CS) /\ ~HasSkipName(sl[1])}

Raises(sl) == ~CheckFileOf(tree[sl]).ok

ExceedsOne(sl) == LET r == CheckFileOf(tree[sl]) IN r.ok /\ r.count > 1

\* C1: when no candidate file raises, the exit code is 0 iff no candidate
\* file has a count greater than 1, and 1 iff some candidate file has.
C1_ExitCode ==
    (pc = "done" /\ \A sl \in CandidateSlots : ~Raises(sl))
    => /\ exitCode = 0 <=> ~\E sl \in CandidateSlots : ExceedsOne(sl)
       /\ exitCode = 1 <=> \E sl \in CandidateSlots : ExceedsOne(sl)

\* C1 witness: a run ended with exit code 1 over a tree holding a file of
\* count 2 and a candidate file of count 1.
C1_Witness ==
    /\ pc = "done" /\ ~crashed /\ exitCode = 1
    /\ \E sl \in CandidateSlots :
          LET r == CheckFileOf(tree[sl]) IN r.ok /\ r.count = 1

\* the pairs the violation list is to hold after the visits vs; withRoot
\* says whether the name of the root itself excludes the files below it
RECURSIVE ExpectedErrors(_, _)
ExpectedErrors(vs, withRoot) ==
    IF vs = <<>> THEN <<>>
    ELSE LET fp == Head(vs)
             r == CheckFileOf(tree[<<fp[2], fp[3]>>])
             listed == /\ EndsWith(fp[3], DOT_CS)
                       /\ ~HasSkipName(fp[2])
                       /\ withRoot => fp[1] \notin SKIP_DIRS
                       /\ r.ok /\ r.count > 1
         IN  (IF listed THEN << <<fp, r.count>> >> ELSE <<>>)
                \o ExpectedErrors(Tail(vs), withRoot)

NoRepeat(q) == \A i, j \in 1..Len(q) : q[i] = q[j] => i = j

\* C2 (as stated): at every point the violation list is, in traversal order,
\* one pair for each visited ".cs" file that is not below a directory whose
\* name is in the excluded set and has a count above 1.
C2_ViolationList ==
    /\ errors = ExpectedErrors(visited, TRUE)
    /\ NoRepeat(errors)

\* C2 (amended): the same, the excluded directories being those met below
\* the root; the root is walked whatever its name.
C2_ViolationListBelowRoot ==
    /\ errors = ExpectedErrors(visited, FALSE)
    /\ NoRepeat(errors)

\* C2 witness: the scan is over, one violation is listed, and the tree holds
\* a ".cs" file of count 2 below an excluded directory.
C2_Witness ==
    /\ pc = "done" /\ Len(errors) = 1
    /\ \E sl \in DOMAIN tree :
          EndsWith(sl[2], DOT_CS) /\ HasSkipName(sl[1]) /\ ExceedsOne(sl)

Listed(fp) == \E i \in 1..Len(stdout) : stdout[i].kind = "violation" /\ stdout[i].path = fp

\* C3 (as stated): a file that fails does not stop the scan: at the end
\* every candidate file has been examined and the violations are reported.
C3_ScanCompletes ==
    pc = "done"
    => \A sl \in CandidateSlots :
          /\ Fpath(root, sl[1], sl[2]) \in Range(visited)
          /\ ExceedsOne(sl) => Listed(Fpath(root, sl[1], sl[2]))

\* C4 (as stated): an unhandled error ends the process with an exit code
\* that is neither 0 nor the 1 that means violations found.
C4_DistinctExitCode ==
    (pc = "done" /\ crashed) => exitCode \notin {0, 1}

\* C5 (as stated): a run that has ended has written one of the two reports:
\* the success line with exit code 0, or the header followed by one line per
\* violation record with exit code 1.
C5_ReportWritten ==
    pc = "done"
    => \/ exitCode = 0 /\ stdout = <<[kind |-> "success"]>>
       \/ /\ exitCode = 1 /\ Len(stdout) = Len(errors) + 1 /\ errors # <<>>
          /\ stdout[1].kind = "header"
          /\ \A i \in 1..Len(errors) :
                stdout[i + 1] =
                    [kind |-> "violation", path |-> errors[i][1], count |-> errors[i][2]]

====
